---- MODULE Spec2Model ----
(***************************************************************************)
(* Model of the NexaCorp assistant: the turn-bounded decision loop of      *)
(* CommunicationAgent.handle_user_query and the fetch / dedup / rerank /   *)
(* synthesize pipeline of RetrievalAgent.process_request.                  *)
(*                                                                         *)
(* Text is modelled as a sequence of tokens.  The markers "ANSWER:",       *)
(* "TOOL:" and "QUERY:" are single tokens, whitespace is the tokens " "    *)
(* and "\n", identifiers (\w+) are the tokens of WordTokens and every      *)
(* other token is opaque text.                                             *)
(***************************************************************************)
EXTENDS Integers, Sequences, FiniteSets, TLC

\* ---------------------------------------------------------------- bounds
MaxTurns == 3

\* handle_user_query is called at most this many times on the agent
MaxCalls == 2

\* the language model asks for the retrieval agent at most this many times
MaxRetrievals == 1
\* the largest max_turns of the agent under run_multi_agent_conversation
MaxInnerTurns == 1
\* the default of max_turns of run_multi_agent_conversation
DefaultOuterTurns == 3

\* The calls made on one agent fit, each with its whole budget used, in a
\* history of this many Turns: one call of the largest budget.
MaxLog == 2 * MaxTurns + 2

\* ---------------------------------------------------------------- text
WsTokens == {" ", "\n"}
WordTokens == {"retrieval_agent", "ticket_tool", "x", "y"}

RECURSIVE LStrip(_)
LStrip(s) == IF s # <<>> /\ Head(s) \in WsTokens THEN LStrip(Tail(s)) ELSE s

RECURSIVE RStrip(_)
RStrip(s) ==
    IF s # <<>> /\ s[Len(s)] \in WsTokens THEN RStrip(SubSeq(s, 1, Len(s) - 1)) ELSE s

\* str.strip()
Strip(s) == RStrip(LStrip(s))

\* "ANSWER:" in model_output
ContainsAnswer(s) == \E k \in 1..Len(s) : s[k] = "ANSWER:"

\* mutant of SplitAnswer: the text after the last ANSWER:
SplitAnswerLast(s) ==
    LET k == CHOOSE k \in 1..Len(s) :
                 s[k] = "ANSWER:" /\ \A j \in (k + 1)..Len(s) : s[j] # "ANSWER:"
    IN  SubSeq(s, k + 1, Len(s))

\* model_output.split("ANSWER:", 1)[1]
SplitAnswer(s) ==
    LET k == CHOOSE k \in 1..Len(s) :
                 s[k] = "ANSWER:" /\ \A j \in 1..(k - 1) : s[j] # "ANSWER:"
    IN  SubSeq(s, k + 1, Len(s))

\* model_output.split("ANSWER:", 1)[1].strip()
ExtractAnswer(s) == Strip(SplitAnswer(s))

\* the position after a maximal run of whitespace starting at j  (\s*)
RECURSIVE SkipWs(_, _)
SkipWs(s, j) == IF j <= Len(s) /\ s[j] \in WsTokens THEN SkipWs(s, j + 1) ELSE j

\* the position after a maximal run of identifier tokens starting at j  (\w+)
RECURSIVE WordEnd(_, _)
WordEnd(s, j) == IF j <= Len(s) /\ s[j] \in WordTokens THEN WordEnd(s, j + 1) ELSE j

NoMatch == [ok |-> FALSE, name |-> <<>>, query |-> <<>>]

\* the position of the first QUERY: at or after j
RECURSIVE FindQuery(_, _)
FindQuery(s, j) == IF j <= Len(s) /\ s[j] # "QUERY:" THEN FindQuery(s, j + 1) ELSE j

\* mutant of MatchAt: anything may stand between the identifier and QUERY:
MatchAtLoose(s, p) ==
    IF p > Len(s) \/ s[p] # "TOOL:" THEN NoMatch
    ELSE LET a == SkipWs(s, p + 1)
             b == WordEnd(s, a)
             c == FindQuery(s, b)
         IN  IF b > a /\ c <= Len(s)
             THEN [ok |-> TRUE,
                   name |-> SubSeq(s, a, b - 1),
                   query |-> SubSeq(s, SkipWs(s, c + 1), Len(s))]
             ELSE NoMatch

\* TOOL:\s*(\w+)\s*QUERY:\s*(.*) anchored at position p, with DOTALL
MatchAt(s, p) ==
    IF p > Len(s) \/ s[p] # "TOOL:" THEN NoMatch
    ELSE LET a == SkipWs(s, p + 1)
             b == WordEnd(s, a)
             c == SkipWs(s, b)
         IN  IF b > a /\ c <= Len(s) /\ s[c] = "QUERY:"
             THEN [ok |-> TRUE,
                   name |-> SubSeq(s, a, b - 1),
                   query |-> SubSeq(s, SkipWs(s, c + 1), Len(s))]
             ELSE NoMatch

\* re.search(r"TOOL:\s*(\w+)\s*QUERY:\s*(.*)", model_output, re.DOTALL)
ToolMatch(s) ==
    IF \E p \in 1..Len(s) : MatchAt(s, p).ok
    THEN MatchAt(s, CHOOSE p \in 1..Len(s) :
                        MatchAt(s, p).ok /\ \A r \in 1..(p - 1) : ~MatchAt(s, r).ok)
    ELSE NoMatch

\* tool_match.group(1).strip() and tool_match.group(2).strip()
ToolName(m) == Strip(m.name)
ToolQuery(m) == Strip(m.query)

\* ---------------------------------------------------------------- inputs
Queries == {<<"q1">>, <<"q2">>}

\* the queries call number n + 1 on an agent can pass: queries are only stored
\* and compared, so the first call passes one of them, a later call any
CallQueries(n) == IF n = 0 THEN {<<"q1">>} ELSE Queries

\* what self.llm.invoke(prompt).content can be in the decision loop
ModelOutputs ==
    { <<"ANSWER:", " ", "x">>,
      <<" ", "TOOL:", " ", "retrieval_agent", " ", "QUERY:", " ", "sick", " ",
        "ANSWER:", "\n", "x", " ", "ANSWER:", "y", " ">>,
      <<"TOOL:", " ", "retrieval_agent", " ", "QUERY:", " ", "sick", "\n", "leave", "\n">>,
      <<"TOOL:", " ", "ticket_tool", " ", "QUERY:", " ", "NCX-1">>,
      <<"TOOL:", " ", "ticket_tool", " ", "QUERY:", " ", "NCX-9", " ">>,
      <<"TOOL:", " ", "retrieval_agent", " ", "x", " ", "QUERY:", " ", "sick">>,
      <<"hello">> }

\* wirings of the tool registry: multi_agent_system.py and emergent_system.py
Registries == { {"retrieval_agent"}, {"retrieval_agent", "ticket_tool"} }

FallbackAnswer ==
    <<"I'm sorry, but I seem to be stuck. Could you please try rephrasing your request?">>

ParseErrorText == <<"Output does not match ANSWER: or TOOL: ... QUERY: ... format">>

\* ---------------------------------------------------------------- turns
\* HumanMessage(content) / AIMessage(content); kind is the bracketed prefix of
\* the content, name the tool the content names, body the rest of the content
Turn(role, kind, name, body) ==
    [role |-> role, kind |-> kind, name |-> name, body |-> body]

UserTurn(q) == Turn("user", "", <<>>, q)
ThoughtTurn(out) == Turn("assistant", "Thought", <<>>, out)
FinalTurn(ans) == Turn("assistant", "Final Answer", <<>>, ans)
ToolResultTurn(name, str) == Turn("assistant", "Tool Result", name, str)
UnknownToolTurn(name) == Turn("assistant", "Error: unknown tool", name, <<>>)
ExecErrorTurn(e) == Turn("assistant", "Error: could not parse or execute", <<>>, e)

\* mutants of LoopRuns: one iteration too many, one too few
LoopRunsInclusive(idx, budget) == idx <= budget
LoopRunsShort(idx, budget) == idx + 1 < budget

\* range(self.max_turns): the loop body runs for index idx
LoopRuns(idx, budget) == idx < budget


\* mutant of KnownTool: the registry is not consulted
KnownToolAny(name, registry) == Len(name) = 1

\* tool_name in self.tools
KnownTool(name, registry) == Len(name) = 1 /\ name[1] \in registry

\* ---------------------------------------------------------------- ticket tool
\* the index of self.df
TicketIds == {<<"NCX-1">>}

AIMessage(content) == [type |-> "AIMessage", content |-> content]
Dict(content) == [type |-> "dict", content |-> content]

\* TicketLookupTool.process_request
TicketLookup(ticket_id) ==
    IF Strip(ticket_id) \in TicketIds
    THEN Dict(<<"Status", "Open">>)
    ELSE Dict(<<"error", "Ticket ID '">> \o ticket_id \o <<"' not found.">>)

\* json.dumps(tool_response)
JsonDumps(d) == <<"{">> \o d \o <<"}">>

\* mutant of Normalize: a dict is not serialized
NormalizeContent(resp) == resp.content

\* the isinstance chain that turns a tool response into response_str
Normalize(resp) ==
    IF resp.type = "AIMessage" THEN resp.content
    ELSE IF resp.type = "dict" THEN JsonDumps(resp.content)
    ELSE resp.content

\* ---------------------------------------------------------------- pipeline inputs
\* self.retrievers, in the iteration order of the dict
DomainOrder == <<"hr", "it">>
Domains == {DomainOrder[k] : k \in 1..Len(DomainOrder)}

Texts == {"A", "B"}

\* what retriever.invoke(query) can return
DocLists == {<<>>, <<"A">>, <<"B", "A">>}

\* top_k_rerank values the agent is constructed with
TopKs == {1, 2}

\* search_kwargs of a retriever built by as_retriever(), and the k fetch sets
DefaultSearchKwargs == {}
FetchK == 25
FetchSearchKwargs == {<<"k", FetchK>>}

Document(domain, text) == [domain |-> domain, page_content |-> text]

\* what self.llm.invoke(summary_prompt).content can be
SummaryOutputs ==
    { <<" ", "Submit form HR-12 to your manager.", "\n">>,
      <<"I don't know.", " ", "NO_INFO_FOUND">>,
      <<"No_Info_Found">> }

\* str.lower(), token by token
LowerTok(t) == IF t \in {"NO_INFO_FOUND", "No_Info_Found"} THEN "no_info_found" ELSE t
Lower(s) == [k \in 1..Len(s) |-> LowerTok(s[k])]

\* mutant of IsNegative: the summary is compared with the sentinel as written
IsNegativeExact(summary) == summary = <<"NO_INFO_FOUND">>

\* "no_info_found" in summary.lower()
IsNegative(summary) == \E k \in 1..Len(summary) : Lower(summary)[k] = "no_info_found"

NoCandidatesText == <<"NO_INFO_FOUND", ": No documents were found in the initial fetch.">>
RerankEmptyText == <<"NO_INFO_FOUND", ": Re-ranking did not find any relevant documents.">>
SynthesisNegativeText == <<"NO_INFO_FOUND">>

\* list({doc.page_content: doc for doc in all_docs}.values()): one entry per
\* text at the position of the text's first occurrence, holding the last
\* document with that text
RECURSIVE FirstTexts(_, _)
FirstTexts(docs, seen) ==
    IF docs = <<>> THEN <<>>
    ELSE IF Head(docs).page_content \in seen THEN FirstTexts(Tail(docs), seen)
    ELSE <<Head(docs).page_content>>
             \o FirstTexts(Tail(docs), seen \cup {Head(docs).page_content})

LastDoc(docs, t) ==
    docs[CHOOSE k \in 1..Len(docs) :
             docs[k].page_content = t
             /\ \A j \in (k + 1)..Len(docs) : docs[j].page_content # t]

\* mutant of Dedup: one entry per text at the position of its last occurrence
DedupByLast(docs) == SelectSeq(docs, LAMBDA d : d = LastDoc(docs, d.page_content))

Dedup(docs) ==
    LET ts == FirstTexts(docs, {})
    IN  [k \in 1..Len(ts) |-> LastDoc(docs, ts[k])]

\* mutant of Take: the slice keeps everything
TakeAll(xs, n) == xs

\* xs[:n]
Take(xs, n) == SubSeq(xs, 1, IF n < Len(xs) THEN n ELSE Len(xs))

PageContents(docs) == [k \in 1..Len(docs) |-> docs[k].page_content]

\* "\n\n---\n\n".join(top_docs_content)
Separator == "\n\n---\n\n"
RECURSIVE Join(_)
Join(xs) ==
    IF Len(xs) <= 1 THEN xs ELSE <<Head(xs), Separator>> \o Join(Tail(xs))

\* what self.reranker.rerank(request) can return for these passages: the
\* passages it was given, or some of them, in the order of its scores
Rerankings(texts) ==
    LET n == Len(texts)
    IN  { r \in UNION {[1..m -> 1..n] : m \in 0..n} :
              \A a, b \in DOMAIN r : a # b => r[a] # r[b] }


\* ---------------------------------------------------------------- state
VARIABLES
    tools,            \* CommunicationAgent.tools: the registered tool names
    max_turns,        \* CommunicationAgent.max_turns
    log_history,      \* CommunicationAgent.log_history
    pc,               \* position of handle_user_query
    i,                \* the loop index of handle_user_query
    query,            \* the argument of the current handle_user_query call
    base,             \* Len(log_history) when the current call began
    model_output,     \* model_output of the current iteration
    result,           \* the answer the call returned
    saved,            \* what _save_log_to_file was given, one entry per call of it
    llm_calls,        \* self.llm.invoke calls made by the loop in the current call
    iter_tools,       \* process_request calls made in the current iteration
    calls,            \* handle_user_query calls made so far
    reranker,         \* RetrievalAgent.reranker: "ranker" or "None"
    top_k_rerank,     \* RetrievalAgent.top_k_rerank
    retrievers,       \* RetrievalAgent.retrievers: the domains in iteration order
    search_kwargs,    \* retriever.search_kwargs of each domain retriever
    ra_pc,            \* position of process_request
    ra_query,         \* the argument of the current process_request call
    ra_next,          \* index in retrievers of the next retriever to query
    all_docs,         \* all_docs of process_request
    unique_docs,      \* unique_docs of process_request
    top_docs_content, \* top_docs_content of process_request
    ra_out,           \* how the last process_request ended: return value or exception
    ra_log,           \* roles process_request has logged in the current call
    ra_calls,         \* invocations made by the current process_request call
    ra_requests,      \* process_request calls made so far
    fetched,          \* what retriever.invoke did on each pass of the fetch loop
    context,          \* context of process_request: the passages of the prompt
    summary_response, \* how self.llm.invoke(summary_prompt) ended
    run_pc,           \* position of run_multi_agent_conversation, "none" without it
    outer_max_turns,  \* max_turns of run_multi_agent_conversation
    rounds,           \* passes of the for loop of run_multi_agent_conversation begun
    ra_base,          \* ra_requests (the counter) when the current pass began
    ra_responses,     \* ra_responses of run_multi_agent_conversation
    answer            \* answer of run_multi_agent_conversation

vars == <<tools, max_turns, log_history, pc, i, query, base, model_output, result,
          saved, llm_calls, iter_tools, calls, reranker, top_k_rerank, retrievers,
          search_kwargs, ra_pc, ra_query, ra_next, all_docs, unique_docs, top_docs_content,
          ra_out, ra_log, ra_calls, ra_requests, fetched, context, summary_response,
          run_pc, outer_max_turns, rounds, ra_base, ra_responses, answer>>

\* the frame of run_multi_agent_conversation
runVars == <<run_pc, outer_max_turns, rounds, ra_base, ra_responses, answer>>
\* what no step of handle_user_query or of process_request assigns
caConfig == <<tools, max_turns, runVars>>
caVars == <<caConfig, log_history, pc, i, query, base, model_output, result, saved,
            llm_calls, iter_tools, calls>>
raConfig == <<reranker, top_k_rerank, retrievers>>
raSynth == <<context, summary_response>>
raLocals == <<ra_pc, ra_query, ra_next, all_docs, unique_docs, top_docs_content,
              ra_out, ra_log, ra_calls, fetched, raSynth>>
raVars == <<raConfig, search_kwargs, raLocals, ra_requests>>

NoCalls == [retriever |-> [d \in Domains |-> 0], reranker |-> 0, llm |-> 0]
NoOutcome == [kind |-> "none", value |-> <<>>]
Returned(text) == [kind |-> "return", value |-> text]
Raised(cause) == [kind |-> "raise", value |-> cause]

\* the frame of process_request is gone; ra_out keeps how the call ended
RAIdle ==
    /\ ra_pc' = "idle"
    /\ ra_query' = <<>>
    /\ ra_next' = 1
    /\ all_docs' = <<>>
    /\ unique_docs' = <<>>
    /\ top_docs_content' = <<>>
    /\ ra_log' = <<>>
    /\ ra_calls' = NoCalls
    /\ fetched' = <<>>
    /\ context' = <<>>
    /\ summary_response' = NoOutcome

\* the state after the agents are constructed, whatever order self.retrievers has
Constructed ==
    /\ tools \in Registries
    /\ max_turns \in 0..MaxTurns
    /\ log_history = <<>>
    /\ pc = "idle"
    /\ i = 0
    /\ query = <<>>
    /\ base = 0
    /\ model_output = <<>>
    /\ result = <<>>
    /\ saved = <<>>
    /\ llm_calls = 0
    /\ iter_tools = <<>>
    /\ calls = 0
    /\ reranker \in {"ranker", "None"}
    /\ top_k_rerank \in TopKs
    /\ search_kwargs = [d \in Domains |-> DefaultSearchKwargs]
    /\ ra_pc = "idle"
    /\ ra_query = <<>>
    /\ ra_next = 1
    /\ all_docs = <<>>
    /\ unique_docs = <<>>
    /\ top_docs_content = <<>>
    /\ ra_out = NoOutcome
    /\ ra_log = <<>>
    /\ ra_calls = NoCalls
    /\ ra_requests = 0
    /\ fetched = <<>>
    /\ context = <<>>
    /\ summary_response = NoOutcome

\* the agents are called without run_multi_agent_conversation
NoRun ==
    /\ run_pc = "none"
    /\ outer_max_turns = 0
    /\ rounds = 0
    /\ ra_base = 0
    /\ ra_responses = <<>>
    /\ answer = <<>>

Init ==
    /\ Constructed
    /\ retrievers = DomainOrder
    /\ NoRun

\* ---------------------------------------------------------------- decision loop
\* self.log(role, content)
Log(turn) == log_history' = Append(log_history, turn)

\* _save_log_to_file(self.log_history[0].content), on the history as it is
\* after the Turns of `turns` have been appended
SaveLog(history) ==
    saved' = Append(saved, [initial_user_query |-> history[1].body,
                            log |-> history])

\* mutant of StartCall: each call begins a history of its own
StartCallFresh(q) ==
    /\ pc \in {"idle", "returned", "raised"}
    /\ q \in CallQueries(calls)
    /\ calls < MaxCalls
    /\ (calls + 1) * (2 * max_turns + 2) <= MaxLog
    /\ calls' = calls + 1
    /\ log_history' = <<UserTurn(q)>>
    /\ query' = q
    /\ base' = 0
    /\ i' = 0
    /\ pc' = "loop"
    /\ model_output' = <<>>
    /\ result' = <<>>
    /\ llm_calls' = 0
    /\ iter_tools' = <<>>
    /\ UNCHANGED <<caConfig, saved, raVars>>

\* handle_user_query(q), up to the loop
StartCall(q) ==
    /\ pc \in {"idle", "returned", "raised"}
    /\ q \in CallQueries(calls)
    /\ calls < MaxCalls
    /\ (calls + 1) * (2 * max_turns + 2) <= MaxLog
    /\ calls' = calls + 1
    /\ Log(UserTurn(q))
    /\ query' = q
    /\ base' = Len(log_history)
    /\ i' = 0
    /\ pc' = "loop"
    /\ model_output' = <<>>
    /\ result' = <<>>
    /\ llm_calls' = 0
    /\ iter_tools' = <<>>
    /\ UNCHANGED <<caConfig, saved, raVars>>

\* the output makes the loop call the retrieval agent
AsksRetrieval(out) ==
    /\ ~ContainsAnswer(out)
    /\ ToolMatch(out).ok
    /\ ToolName(ToolMatch(out)) = <<"retrieval_agent">>

\* mutant of LLMInvoke: an output that holds ANSWER: is not logged as a thought
LLMInvokeUnlogged(out) ==
    /\ pc = "loop"
    /\ LoopRuns(i, max_turns)
    /\ AsksRetrieval(Strip(out)) => ra_requests < MaxRetrievals
    /\ llm_calls' = llm_calls + 1
    /\ model_output' = Strip(out)
    /\ IF ContainsAnswer(Strip(out))
       THEN UNCHANGED log_history
       ELSE Log(ThoughtTurn(Strip(out)))
    /\ iter_tools' = <<>>
    /\ pc' = "parse"
    /\ UNCHANGED <<caConfig, calls, i, query, base, result, saved, raVars>>

\* self.llm.invoke(prompt) returns: the thought is logged
LLMInvoke(out) ==
    /\ pc = "loop"
    /\ LoopRuns(i, max_turns)
    /\ AsksRetrieval(Strip(out)) => ra_requests < MaxRetrievals
    /\ llm_calls' = llm_calls + 1
    /\ model_output' = Strip(out)
    /\ Log(ThoughtTurn(Strip(out)))
    /\ iter_tools' = <<>>
    /\ pc' = "parse"
    /\ UNCHANGED <<caConfig, calls, i, query, base, result, saved, raVars>>

\* self.llm.invoke(prompt) raises: the call is outside the try block
LLMRaise ==
    /\ pc = "loop"
    /\ LoopRuns(i, max_turns)
    /\ llm_calls' = llm_calls + 1
    /\ pc' = "raised"
    /\ UNCHANGED <<caConfig, calls, log_history, i, query, base, model_output, result,
                   saved, iter_tools, raVars>>

\* the ANSWER: branch
Answer ==
    /\ pc = "parse"
    /\ ContainsAnswer(model_output)
    /\ LET final_answer == ExtractAnswer(model_output)
           history == Append(log_history, FinalTurn(final_answer))
       IN  /\ log_history' = history
           /\ SaveLog(history)
           /\ result' = final_answer
    /\ pc' = "returned"
    /\ UNCHANGED <<caConfig, calls, i, query, base, model_output, llm_calls, iter_tools,
                   raVars>>

\* the iteration ends and the loop goes on
NextIteration ==
    /\ i' = i + 1
    /\ pc' = "loop"

\* no tool_match: the ValueError is caught and logged
ParseFail ==
    /\ pc = "parse"
    /\ ~ContainsAnswer(model_output)
    /\ ~ToolMatch(model_output).ok
    /\ Log(ExecErrorTurn(ParseErrorText))
    /\ NextIteration
    /\ UNCHANGED <<caConfig, calls, query, base, model_output, result, saved, llm_calls,
                   iter_tools, raVars>>

\* tool_name is not in self.tools
UnknownTool ==
    /\ pc = "parse"
    /\ ~ContainsAnswer(model_output)
    /\ ToolMatch(model_output).ok
    /\ ~KnownTool(ToolName(ToolMatch(model_output)), tools)
    /\ Log(UnknownToolTurn(ToolName(ToolMatch(model_output))))
    /\ NextIteration
    /\ UNCHANGED <<caConfig, calls, query, base, model_output, result, saved, llm_calls,
                   iter_tools, raVars>>

\* tool_name is ticket_tool: the lookup and the logging of its result
\* mutant of TicketDispatch: a record with an error key is logged as an error
TicketDispatchErrors ==
    /\ pc = "parse"
    /\ ~ContainsAnswer(model_output)
    /\ ToolMatch(model_output).ok
    /\ LET m == ToolMatch(model_output)
           r == TicketLookup(ToolQuery(m))
       IN  /\ KnownTool(ToolName(m), tools)
           /\ ToolName(m) = <<"ticket_tool">>
           /\ iter_tools' = Append(iter_tools, [name |-> ToolName(m),
                                                query |-> ToolQuery(m)])
           /\ IF r.content[1] = "error"
              THEN Log(ExecErrorTurn(Normalize(r)))
              ELSE Log(ToolResultTurn(ToolName(m), Normalize(r)))
    /\ NextIteration
    /\ UNCHANGED <<caConfig, calls, query, base, model_output, result, saved, llm_calls,
                   raVars>>

TicketDispatch ==
    /\ pc = "parse"
    /\ ~ContainsAnswer(model_output)
    /\ ToolMatch(model_output).ok
    /\ LET m == ToolMatch(model_output)
       IN  /\ KnownTool(ToolName(m), tools)
           /\ ToolName(m) = <<"ticket_tool">>
           /\ iter_tools' = Append(iter_tools, [name |-> ToolName(m),
                                                query |-> ToolQuery(m)])
           /\ Log(ToolResultTurn(ToolName(m), Normalize(TicketLookup(ToolQuery(m)))))
    /\ NextIteration
    /\ UNCHANGED <<caConfig, calls, query, base, model_output, result, saved, llm_calls,
                   raVars>>

\* tool_name is retrieval_agent: process_request(tool_query) is entered
RetrievalDispatch ==
    /\ pc = "parse"
    /\ ~ContainsAnswer(model_output)
    /\ ToolMatch(model_output).ok
    /\ LET m == ToolMatch(model_output)
       IN  /\ KnownTool(ToolName(m), tools)
           /\ ToolName(m) = <<"retrieval_agent">>
           /\ iter_tools' = Append(iter_tools, [name |-> ToolName(m),
                                                query |-> ToolQuery(m)])
           /\ ra_query' = ToolQuery(m)
    /\ ra_pc = "idle"
    /\ ra_pc' = "fetch"
    /\ ra_next' = 1
    /\ ra_log' = <<"ca_message", "ra_thought">>
    /\ ra_requests' = ra_requests + 1
    /\ pc' = "in_tool"
    /\ ra_out' = NoOutcome
    /\ UNCHANGED <<caConfig, calls, log_history, i, query, base, model_output, result,
                   saved, llm_calls, raConfig, search_kwargs, all_docs, unique_docs,
                   top_docs_content, ra_calls, fetched, raSynth>>

\* mutant of ToolReturn: the exception of the tool is not caught
ToolReturnPropagates ==
    /\ pc = "in_tool"
    /\ ra_pc = "done"
    /\ IF ra_out.kind = "return"
       THEN /\ Log(ToolResultTurn(ToolName(ToolMatch(model_output)),
                                  Normalize(ra_out.value)))
            /\ NextIteration
       ELSE /\ pc' = "raised"
            /\ UNCHANGED <<log_history, i>>
    /\ RAIdle
    /\ UNCHANGED <<caConfig, calls, query, base, model_output, result, saved, llm_calls,
                   iter_tools, raConfig, search_kwargs, ra_requests, ra_out>>

\* process_request is over: its value is normalized and logged, its exception
\* is caught and logged
ToolReturn ==
    /\ pc = "in_tool"
    /\ ra_pc = "done"
    /\ IF ra_out.kind = "return"
       THEN Log(ToolResultTurn(ToolName(ToolMatch(model_output)), Normalize(ra_out.value)))
       ELSE Log(ExecErrorTurn(ra_out.value))
    /\ NextIteration
    /\ RAIdle
    /\ UNCHANGED <<caConfig, calls, query, base, model_output, result, saved, llm_calls,
                   iter_tools, raConfig, search_kwargs, ra_requests, ra_out>>

\* mutant of Exhausted: the fallback answer is returned but not logged
ExhaustedUnlogged ==
    /\ pc = "loop"
    /\ ~LoopRuns(i, max_turns)
    /\ log_history' = log_history
    /\ SaveLog(log_history)
    /\ result' = FallbackAnswer
    /\ pc' = "returned"
    /\ UNCHANGED <<caConfig, calls, i, query, base, model_output, llm_calls, iter_tools,
                   raVars>>

\* the loop is over without an ANSWER:
Exhausted ==
    /\ pc = "loop"
    /\ ~LoopRuns(i, max_turns)
    /\ LET history == Append(log_history, FinalTurn(FallbackAnswer))
       IN  /\ log_history' = history
           /\ SaveLog(history)
    /\ result' = FallbackAnswer
    /\ pc' = "returned"
    /\ UNCHANGED <<caConfig, calls, i, query, base, model_output, llm_calls, iter_tools,
                   raVars>>


\* ---------------------------------------------------------------- pipeline
RetrieverCalled(d) ==
    ra_calls' = [ra_calls EXCEPT !.retriever[d] = @ + 1]

\* a call of process_request from outside handle_user_query
ProcessRequest(q) ==
    /\ pc \in {"idle", "returned"}
    /\ ra_pc \in {"idle", "done"}
    /\ ra_pc' = "fetch"
    /\ ra_query' = q
    /\ ra_next' = 1
    /\ ra_log' = <<"ca_message", "ra_thought">>
    /\ ra_requests' = ra_requests + 1
    /\ ra_out' = NoOutcome
    /\ ra_calls' = NoCalls
    /\ all_docs' = <<>>
    /\ unique_docs' = <<>>
    /\ top_docs_content' = <<>>
    /\ fetched' = <<>>
    /\ context' = <<>>
    /\ summary_response' = NoOutcome
    /\ UNCHANGED <<caVars, raConfig, search_kwargs>>

\* all_docs after the fetch loop over the domains of `order`, when the
\* retriever of domain d returns res[d] (<<>> when it fails)
RECURSIVE FetchLoop(_, _)
FetchLoop(order, res) ==
    IF order = <<>> THEN <<>>
    ELSE LET d == Head(order)
         IN  [k \in 1..Len(res[d]) |-> Document(d, res[d][k])]
                 \o FetchLoop(Tail(order), res)

\* mutant of Fetch: the docs of a domain replace the ones fetched before
FetchReplaces(texts) ==
    /\ ra_pc = "fetch"
    /\ ra_next <= Len(retrievers)
    /\ LET d == retrievers[ra_next]
       IN  /\ search_kwargs' = [search_kwargs EXCEPT ![d] = FetchSearchKwargs]
           /\ RetrieverCalled(d)
           /\ fetched' = Append(fetched, Returned([domain |-> d, texts |-> texts]))
           /\ IF texts # <<>>
              THEN /\ ra_log' = Append(ra_log, "retrieved_docs")
                   /\ all_docs' = [k \in 1..Len(texts) |-> Document(d, texts[k])]
              ELSE UNCHANGED <<ra_log, all_docs>>
    /\ ra_next' = ra_next + 1
    /\ UNCHANGED <<caVars, ra_requests, raConfig, ra_pc, ra_query,
                   unique_docs, top_docs_content, ra_out, raSynth>>

\* one pass of the fetch loop: retriever.invoke(query) returns docs
Fetch(texts) ==
    /\ ra_pc = "fetch"
    /\ ra_next <= Len(retrievers)
    /\ LET d == retrievers[ra_next]
       IN  /\ search_kwargs' = [search_kwargs EXCEPT ![d] = FetchSearchKwargs]
           /\ RetrieverCalled(d)
           /\ fetched' = Append(fetched, Returned([domain |-> d, texts |-> texts]))
           /\ IF texts # <<>>
              THEN /\ ra_log' = Append(ra_log, "retrieved_docs")
                   /\ all_docs' =
                          all_docs \o [k \in 1..Len(texts) |-> Document(d, texts[k])]
              ELSE UNCHANGED <<ra_log, all_docs>>
    /\ ra_next' = ra_next + 1
    /\ UNCHANGED <<caVars, ra_requests, raConfig, ra_pc, ra_query,
                   unique_docs, top_docs_content, ra_out, raSynth>>

\* mutant of FetchRaise: the failure of one retriever ends the fetch loop
FetchRaiseAborts ==
    /\ ra_pc = "fetch"
    /\ ra_next <= Len(retrievers)
    /\ LET d == retrievers[ra_next]
       IN  /\ search_kwargs' = [search_kwargs EXCEPT ![d] = FetchSearchKwargs]
           /\ RetrieverCalled(d)
           /\ fetched' = Append(fetched, Raised([domain |-> d, texts |-> <<>>]))
    /\ ra_log' = Append(ra_log, "error")
    /\ ra_next' = Len(retrievers) + 1
    /\ UNCHANGED <<caVars, ra_requests, raConfig, ra_pc, ra_query, all_docs,
                   unique_docs, top_docs_content, ra_out, raSynth>>

\* mutant of FetchRaise: the retriever that failed is queried again
FetchRaiseRetries ==
    /\ ra_pc = "fetch"
    /\ ra_next <= Len(retrievers)
    /\ LET d == retrievers[ra_next]
       IN  /\ search_kwargs' = [search_kwargs EXCEPT ![d] = FetchSearchKwargs]
           /\ RetrieverCalled(d)
           /\ fetched' = Append(fetched, Raised([domain |-> d, texts |-> <<>>]))
    /\ ra_log' = Append(ra_log, "error")
    /\ UNCHANGED <<caVars, ra_requests, raConfig, ra_pc, ra_query, ra_next, all_docs,
                   unique_docs, top_docs_content, ra_out, raSynth>>

\* one pass of the fetch loop: retriever.invoke(query) raises
FetchRaise ==
    /\ ra_pc = "fetch"
    /\ ra_next <= Len(retrievers)
    /\ LET d == retrievers[ra_next]
       IN  /\ search_kwargs' = [search_kwargs EXCEPT ![d] = FetchSearchKwargs]
           /\ RetrieverCalled(d)
           /\ fetched' = Append(fetched, Raised([domain |-> d, texts |-> <<>>]))
    /\ ra_log' = Append(ra_log, "error")
    /\ ra_next' = ra_next + 1
    /\ UNCHANGED <<caVars, ra_requests, raConfig, ra_pc, ra_query, all_docs,
                   unique_docs, top_docs_content, ra_out, raSynth>>

\* process_request returns or raises; its locals go out of scope
RAEnds(outcome) ==
    /\ ra_out' = outcome
    /\ ra_pc' = "done"
    /\ all_docs' = <<>>
    /\ unique_docs' = <<>>
    /\ top_docs_content' = <<>>
    /\ fetched' = <<>>

\* mutant of NoCandidates: the empty fetch is not tested for
NoCandidatesSkipped ==
    /\ ra_pc = "fetch"
    /\ ra_next > Len(retrievers)
    /\ all_docs = <<>>
    /\ unique_docs' = Dedup(all_docs)
    /\ ra_pc' = "rerank"
    /\ fetched' = <<>>
    /\ UNCHANGED <<caVars, ra_requests, raConfig, search_kwargs, ra_query,
                   ra_next, all_docs, top_docs_content, ra_out, ra_log, ra_calls, raSynth>>

\* if not all_docs
NoCandidates ==
    /\ ra_pc = "fetch"
    /\ ra_next > Len(retrievers)
    /\ all_docs = <<>>
    /\ RAEnds(Returned(AIMessage(NoCandidatesText)))
    /\ UNCHANGED <<caVars, ra_requests, raConfig, search_kwargs, ra_query,
                   ra_next, ra_log, ra_calls, raSynth>>

\* unique_docs = list({...}.values())
DedupStep ==
    /\ ra_pc = "fetch"
    /\ ra_next > Len(retrievers)
    /\ all_docs # <<>>
    /\ unique_docs' = Dedup(all_docs)
    /\ ra_log' = Append(ra_log, "initial_unique_docs_count")
    /\ ra_pc' = "rerank"
    /\ fetched' = <<>>    \* the fetch loop is over
    /\ UNCHANGED <<caVars, ra_requests, raConfig, search_kwargs, ra_query,
                   ra_next, all_docs, top_docs_content, ra_out, ra_calls, raSynth>>

\* self.reranker.rerank(rerank_request) returns the passages in order r
Rerank(r) ==
    /\ ra_pc = "rerank"
    /\ all_docs' = <<>>    \* all_docs is not used after the dedup
    /\ reranker # "None"
    /\ ra_calls' = [ra_calls EXCEPT !.reranker = @ + 1]
    /\ LET passages == PageContents(unique_docs)
           reranked_results == [k \in 1..Len(r) |-> passages[r[k]]]
       IN  top_docs_content' = Take(reranked_results, top_k_rerank)
    /\ ra_log' = Append(ra_log, "reranked_top_docs_content")
    /\ ra_pc' = "selected"
    /\ UNCHANGED <<caVars, ra_requests, raConfig, search_kwargs, ra_query,
                   ra_next, unique_docs, ra_out, fetched, raSynth>>

\* self.reranker.rerank(rerank_request) raises: nothing in process_request
\* catches it
RerankRaise ==
    /\ ra_pc = "rerank"
    /\ reranker # "None"
    /\ ra_calls' = [ra_calls EXCEPT !.reranker = @ + 1]
    /\ RAEnds(Raised(<<"rerank failed">>))
    /\ UNCHANGED <<caVars, ra_requests, raConfig, search_kwargs, ra_query,
                   ra_next, ra_log, raSynth>>

\* mutant of Degraded: the fallback keeps every unique passage
DegradedKeepsAll ==
    /\ ra_pc = "rerank"
    /\ all_docs' = <<>>
    /\ reranker = "None"
    /\ top_docs_content' = PageContents(unique_docs)
    /\ ra_log' = Append(ra_log, "warning")
    /\ ra_pc' = "selected"
    /\ UNCHANGED <<caVars, ra_requests, raConfig, search_kwargs, ra_query,
                   ra_next, unique_docs, ra_out, ra_calls, fetched, raSynth>>

\* the fallback when the re-ranker failed to initialize
Degraded ==
    /\ ra_pc = "rerank"
    /\ all_docs' = <<>>    \* all_docs is not used after the dedup
    /\ reranker = "None"
    /\ top_docs_content' = PageContents(Take(unique_docs, top_k_rerank))
    /\ ra_log' = Append(ra_log, "warning")
    /\ ra_pc' = "selected"
    /\ UNCHANGED <<caVars, ra_requests, raConfig, search_kwargs, ra_query,
                   ra_next, unique_docs, ra_out, ra_calls, fetched, raSynth>>

\* if not top_docs_content
RerankEmpty ==
    /\ ra_pc = "selected"
    /\ top_docs_content = <<>>
    /\ RAEnds(Returned(AIMessage(RerankEmptyText)))
    /\ UNCHANGED <<caVars, ra_requests, raConfig, search_kwargs, ra_query,
                   ra_next, ra_log, ra_calls, raSynth>>

\* self.llm.invoke(summary_prompt) returns out
Synthesize(out) ==
    /\ ra_pc = "selected"
    /\ top_docs_content # <<>>
    /\ ra_calls' = [ra_calls EXCEPT !.llm = @ + 1]
    /\ context' = Join(top_docs_content)
    /\ summary_response' = Returned(AIMessage(out))
    /\ LET summary == Strip(out)
       IN  IF IsNegative(summary)
           THEN /\ RAEnds(Returned(AIMessage(SynthesisNegativeText)))
                /\ UNCHANGED ra_log
           ELSE /\ RAEnds(Returned(AIMessage(summary)))
                /\ ra_log' = Append(ra_log, "ra_summary")
    /\ UNCHANGED <<caVars, ra_requests, raConfig, search_kwargs, ra_query,
                   ra_next>>

\* self.llm.invoke(summary_prompt) raises: nothing in process_request catches it
SynthesizeRaise ==
    /\ ra_pc = "selected"
    /\ top_docs_content # <<>>
    /\ ra_calls' = [ra_calls EXCEPT !.llm = @ + 1]
    /\ context' = Join(top_docs_content)
    /\ summary_response' = Raised(<<"llm failed">>)
    /\ RAEnds(Raised(<<"llm failed">>))
    /\ UNCHANGED <<caVars, ra_requests, raConfig, search_kwargs, ra_query,
                   ra_next, ra_log>>

\* ---------------------------------------------------------------- specification
Next ==
    \/ \E q \in Queries : StartCall(q)
    \/ \E out \in ModelOutputs : LLMInvoke(out)
    \/ LLMRaise
    \/ Answer
    \/ ParseFail
    \/ UnknownTool
    \/ TicketDispatch
    \/ RetrievalDispatch
    \/ ToolReturn
    \/ Exhausted
    \/ \E texts \in DocLists : Fetch(texts)
    \/ FetchRaise
    \/ NoCandidates
    \/ DedupStep
    \/ \E r \in Rerankings(PageContents(unique_docs)) : Rerank(r)
    \/ RerankRaise
    \/ Degraded
    \/ RerankEmpty
    \/ \E out \in SummaryOutputs : Synthesize(out)
    \/ SynthesizeRaise

Spec == Init /\ [][Next]_vars

\* process_request called directly, for every order self.retrievers can have
RetrieverOrders ==
    {o \in [1..Len(DomainOrder) -> Domains] : \A a, b \in DOMAIN o : o[a] = o[b] => a = b}

InitOrders ==
    /\ Constructed
    /\ tools = {"retrieval_agent", "ticket_tool"}
    /\ max_turns = MaxTurns
    /\ retrievers \in RetrieverOrders
    /\ NoRun

NextOrders ==
    \/ \E q \in Queries : ra_requests < MaxRetrievals /\ ProcessRequest(q)
    \/ \E texts \in DocLists : Fetch(texts)
    \/ FetchRaise
    \/ NoCandidates
    \/ DedupStep
    \/ \E r \in Rerankings(PageContents(unique_docs)) : Rerank(r)
    \/ RerankRaise
    \/ Degraded
    \/ RerankEmpty
    \/ \E out \in SummaryOutputs : Synthesize(out)
    \/ SynthesizeRaise

SpecOrders == InitOrders /\ [][NextOrders]_vars

\* ---------------------------------------------------------------- driver
\* run_multi_agent_conversation of multi_agent_system.py over the two agents
agentVars == <<tools, max_turns, log_history, pc, i, query, base, model_output, result,
               saved, llm_calls, iter_tools, calls, raVars>>

\* line 34 raised: the exception leaves run_multi_agent_conversation
HandleUserQueryRaises ==
    /\ run_pc = "query"
    /\ pc = "raised"
    /\ run_pc' = "raised"
    /\ UNCHANGED <<agentVars, outer_max_turns, rounds, ra_base, ra_responses, answer>>

\* line 34 returned and the for loop makes no pass, or breaks in its first
\* pass on an empty ra_requests: save_interaction is called with the answer.
\* ra_requests is the second value handle_user_query returned, log_history.
LoopSkipped ==
    /\ run_pc = "query"
    /\ pc = "returned"
    /\ outer_max_turns = 0 \/ log_history = <<>>
    /\ answer' = result
    /\ run_pc' = "save_interaction"
    /\ UNCHANGED <<agentVars, outer_max_turns, rounds, ra_base, ra_responses>>

\* line 34 returned and the first pass of the for loop begins
RoundBegins ==
    /\ run_pc = "query"
    /\ pc = "returned"
    /\ rounds < outer_max_turns
    /\ log_history # <<>>
    /\ answer' = result
    /\ rounds' = rounds + 1
    /\ ra_responses' = <<>>
    /\ ra_base' = ra_requests
    /\ run_pc' = "round"
    /\ UNCHANGED <<agentVars, outer_max_turns>>

\* line 45: ra.process_request(msg) for the next msg of ra_requests
RoundRequest ==
    /\ run_pc = "round"
    /\ Len(ra_responses) = ra_requests - ra_base
    /\ Len(ra_responses) < Len(log_history)
    /\ ProcessRequest(log_history[Len(ra_responses) + 1])

\* line 45 is over: the response is appended, or the exception leaves the run
RoundResponse ==
    /\ run_pc = "round"
    /\ ra_pc = "done"
    /\ Len(ra_responses) = ra_requests - ra_base - 1
    /\ IF ra_out.kind = "return"
       THEN ra_responses' = Append(ra_responses, ra_out.value) /\ run_pc' = run_pc
       ELSE ra_responses' = ra_responses /\ run_pc' = "raised"
    /\ UNCHANGED <<agentVars, outer_max_turns, rounds, ra_base, answer>>

\* line 47: ca.handle_ra_response is no attribute of CommunicationAgent
HandleRAResponse ==
    /\ run_pc = "round"
    /\ Len(ra_responses) = Len(log_history)
    /\ run_pc' = "raised"
    /\ UNCHANGED <<agentVars, outer_max_turns, rounds, ra_base, ra_responses, answer>>

\* save_interaction: json.dump meets the message objects of ca.log_history
SaveInteraction ==
    /\ run_pc = "save_interaction"
    /\ run_pc' = IF log_history = <<>> THEN "saved" ELSE "save_raised"
    /\ UNCHANGED <<agentVars, outer_max_turns, rounds, ra_base, ra_responses, answer>>

InitDriver ==
    /\ Constructed
    /\ retrievers = DomainOrder
    /\ tools = {"retrieval_agent"}
    /\ max_turns \in 0..MaxInnerTurns
    /\ run_pc = "query"
    /\ outer_max_turns \in {0, DefaultOuterTurns}
    /\ rounds = 0
    /\ ra_base = 0
    /\ ra_responses = <<>>
    /\ answer = <<>>

NextDriver ==
    \/ \E q \in Queries : run_pc = "query" /\ pc = "idle" /\ StartCall(q)
    \/ \E out \in ModelOutputs : LLMInvoke(out)
    \/ LLMRaise
    \/ Answer
    \/ ParseFail
    \/ UnknownTool
    \/ RetrievalDispatch
    \/ ToolReturn
    \/ Exhausted
    \/ \E texts \in DocLists : Fetch(texts)
    \/ FetchRaise
    \/ NoCandidates
    \/ DedupStep
    \/ \E r \in Rerankings(PageContents(unique_docs)) : Rerank(r)
    \/ RerankRaise
    \/ Degraded
    \/ RerankEmpty
    \/ \E out \in SummaryOutputs : Synthesize(out)
    \/ SynthesizeRaise
    \/ HandleUserQueryRaises
    \/ LoopSkipped
    \/ RoundBegins
    \/ RoundRequest
    \/ RoundResponse
    \/ HandleRAResponse
    \/ SaveInteraction

SpecDriver == InitDriver /\ [][NextDriver]_vars

TypeOK ==
    /\ pc \in {"idle", "loop", "parse", "in_tool", "returned", "raised"}
    /\ ra_pc \in {"idle", "fetch", "rerank", "selected", "done"}
    /\ i \in 0..max_turns
    /\ llm_calls \in Nat


\* ---------------------------------------------------------------- vocabulary of the properties
\* The grammar of a model output, stated by what a match is and not by how the
\* loop searches for it.
Range(s) == {s[k] : k \in 1..Len(s)}
AllIn(s, a, b, S) == \A j \in a..b : s[j] \in S
HasMarker(s) == "ANSWER:" \in Range(s)

\* r is s without its leading and trailing whitespace
IsStripOf(r, s) ==
    /\ r # <<>> => (r[1] \notin WsTokens /\ r[Len(r)] \notin WsTokens)
    /\ \E a \in 1..(Len(s) + 1) :
           /\ a + Len(r) - 1 <= Len(s)
           /\ AllIn(s, 1, a - 1, WsTokens)
           /\ AllIn(s, a + Len(r), Len(s), WsTokens)
           /\ r = SubSeq(s, a, a + Len(r) - 1)

\* r is what follows the first ANSWER: of s, trimmed
IsAnswerOf(r, s) ==
    \E k \in 1..Len(s) :
        /\ s[k] = "ANSWER:"
        /\ "ANSWER:" \notin Range(SubSeq(s, 1, k - 1))
        /\ IsStripOf(r, SubSeq(s, k + 1, Len(s)))

\* TOOL: at p and QUERY: at c, with whitespace, an identifier and whitespace
\* between them
IsToolSpan(s, p, c) ==
    /\ p < c
    /\ s[p] = "TOOL:"
    /\ s[c] = "QUERY:"
    /\ \E a, b \in (p + 1)..(c - 1) :
           /\ a <= b
           /\ AllIn(s, p + 1, a - 1, WsTokens)
           /\ AllIn(s, a, b, WordTokens)
           /\ AllIn(s, b + 1, c - 1, WsTokens)

Positions(s, tok) == {k \in 1..Len(s) : s[k] = tok}
ToolSpans(s) ==
    {w \in Positions(s, "TOOL:") \X Positions(s, "QUERY:") : IsToolSpan(s, w[1], w[2])}

\* the matches of every contiguous piece of a model output, tabulated: a
\* thought holds no other text
Pieces ==
    UNION {{SubSeq(o, a, b) : a \in 1..(Len(o) + 1), b \in 0..Len(o)} : o \in ModelOutputs}
SpansOf == [s \in Pieces |-> ToolSpans(s)]
HasToolPattern(s) == SpansOf[s] # {}

\* the leftmost match, the identifier it names and the query it carries
FirstSpan(s) ==
    LET spans == SpansOf[s]
    IN  CHOOSE w \in spans : \A v \in spans : w[1] <= v[1]
NameOf ==
    [s \in {p \in Pieces : SpansOf[p] # {}} |->
        LET w == FirstSpan(s)
        IN  SelectSeq(SubSeq(s, w[1] + 1, w[2] - 1), LAMBDA t : t \notin WsTokens)]
NamedTool(s) == NameOf[s]
IsQueryOf(q, s) == IsStripOf(q, SubSeq(s, FirstSpan(s)[2] + 1, Len(s)))

\* the kinds of model output the loop tells apart
IsAnswerOutput(s) == HasMarker(s)
IsToolOutput(s) == ~HasMarker(s) /\ HasToolPattern(s)
IsKnownToolOutput(s) ==
    /\ IsToolOutput(s)
    /\ LET name == NamedTool(s) IN Len(name) = 1 /\ name[1] \in tools
IsUnknownToolOutput(s) == IsToolOutput(s) /\ ~IsKnownToolOutput(s)
IsUnparsedOutput(s) == ~HasMarker(s) /\ ~HasToolPattern(s)

\* the Turns of the current call and the thoughts among them
CallTurns == (base + 1)..Len(log_history)
Thoughts == {k \in CallTurns : log_history[k].kind = "Thought"}
IsThought(k) == k \in 1..Len(log_history) /\ log_history[k].kind = "Thought"
LastTurn == log_history[Len(log_history)]

\* ---------------------------------------------------------------- C1
\* C1: every iteration of handle_user_query makes exactly one language-model
\* invocation and advances the loop index, so a call makes at most max_turns
\* invocations and then ends.
C1_InvocationsBounded ==
    /\ llm_calls <= max_turns
    /\ i <= max_turns
    /\ pc = "loop" => llm_calls = i
    /\ pc \in {"parse", "in_tool"} => llm_calls = i + 1
    /\ pc \in {"returned", "raised"} => llm_calls \in {i, i + 1}

C1_Witness ==
    /\ pc = "returned"
    /\ max_turns = 3
    /\ llm_calls = 3
    /\ result = FallbackAnswer

\* ---------------------------------------------------------------- C2
\* C2: a model output that contains ANSWER: ends the call on that iteration:
\* the Turn after its thought is the final answer, which is the text after the
\* first ANSWER: trimmed; no tool is invoked on the iteration, also when the
\* output holds a TOOL: ... QUERY: ... pattern, and no model invocation follows.
C2_AnswerEndsCall ==
    \A k \in 1..Len(log_history) :
        (IsThought(k) /\ IsAnswerOutput(log_history[k].body)) =>
            IF k = Len(log_history)
            THEN pc = "parse" /\ iter_tools = <<>> /\ ra_pc = "idle"
            ELSE /\ log_history[k + 1].kind = "Final Answer"
                 /\ IsAnswerOf(log_history[k + 1].body, log_history[k].body)
                 /\ k + 1 < Len(log_history) => log_history[k + 2].role = "user"
                 /\ k + 1 = Len(log_history) =>
                        /\ pc = "returned"
                        /\ result = log_history[k + 1].body
                        /\ iter_tools = <<>>
                        /\ llm_calls = i + 1
                        /\ i < max_turns

C2_Witness ==
    /\ pc = "returned"
    /\ max_turns = 3
    /\ i = 1
    /\ Len(log_history) >= 2
    /\ HasToolPattern(log_history[Len(log_history) - 1].body)
    /\ result = <<"x", " ", "ANSWER:", "y">>


\* ---------------------------------------------------------------- C3
\* what a retrieval request can answer with, and the causes it can fail with
PipelineTexts ==
    {NoCandidatesText, RerankEmptyText, SynthesisNegativeText}
        \cup {r \in {Strip(o) : o \in SummaryOutputs} : TRUE}
ToolFailures == {<<"rerank failed">>, <<"llm failed">>}

\* str is the text form of what tool `name` answered to query q
IsNormalizedResult(str, name, q) ==
    IF name = <<"ticket_tool">>
    THEN str = <<"{">> \o TicketLookup(q).content \o <<"}">>
    ELSE str \in PipelineTexts /\ ra_out.kind = "return" /\ str = ra_out.value.content

\* C3: a model output without ANSWER: that names a registered tool makes the
\* loop call process_request of that tool once, with the trimmed text after
\* QUERY:, and the Turn after the thought is the result in its text form; no
\* model invocation comes between the two.
C3_KnownToolInvokedOnce ==
    \A k \in 1..Len(log_history) :
        (IsThought(k) /\ IsKnownToolOutput(log_history[k].body)) =>
            LET out == log_history[k].body
                invokedOnce ==
                    /\ Len(iter_tools) = 1
                    /\ iter_tools[1].name = NamedTool(out)
                    /\ IsQueryOf(iter_tools[1].query, out)
            IN  IF k = Len(log_history)
                THEN \/ pc = "parse" /\ iter_tools = <<>>
                     \/ pc = "in_tool" /\ invokedOnce /\ ra_query = iter_tools[1].query
                ELSE /\ log_history[k + 1].kind \in
                            {"Tool Result", "Error: could not parse or execute"}
                     /\ log_history[k + 1].kind = "Tool Result" =>
                            log_history[k + 1].name = NamedTool(out)
                     /\ log_history[k + 1].kind # "Tool Result" =>
                            log_history[k + 1].body \in ToolFailures
                     /\ k + 1 = Len(log_history) =>
                            /\ pc \in {"loop", "raised"}
                            /\ invokedOnce
                            /\ log_history[k + 1].kind = "Tool Result" =>
                                   IsNormalizedResult(log_history[k + 1].body,
                                                      NamedTool(out), iter_tools[1].query)

C3_Witness ==
    /\ pc = "loop"
    /\ Len(log_history) >= 2
    /\ LastTurn = ToolResultTurn(<<"retrieval_agent">>,
                                 <<"Submit form HR-12 to your manager.">>)
    /\ iter_tools = <<[name |-> <<"retrieval_agent">>,
                       query |-> <<"sick", "\n", "leave">>]>>

\* ---------------------------------------------------------------- C4
\* C4: a failure of the language-model invocation in the loop never reaches
\* the caller of handle_user_query: no call ends by raising.
C4_ModelFailureContained == pc # "raised"

\* ---------------------------------------------------------------- C5
NoAnswerInCall == \A k \in Thoughts : ~HasMarker(log_history[k].body)
UnknownToolErrors == {k \in CallTurns : log_history[k].kind = "Error: unknown tool"}

\* C5: a call whose model outputs never contain ANSWER: uses the whole budget,
\* appends the fixed fallback message as the last Turn and returns it, and once
\* the budget is used up nothing raises; when every output names an
\* unregistered tool there are max_turns unknown-tool error Turns, and a budget
\* of 0 gives the fallback without any model invocation.
C5_ExhaustionFallback ==
    /\ (pc = "returned" /\ NoAnswerInCall) =>
           /\ result = <<"I'm sorry, but I seem to be stuck. Could you please try rephrasing your request?">>
           /\ LastTurn = FinalTurn(result)
           /\ saved[Len(saved)].log = log_history
           /\ llm_calls = max_turns
           /\ Cardinality(Thoughts) = max_turns
           /\ (\A k \in Thoughts : IsUnknownToolOutput(log_history[k].body)) =>
                  /\ Cardinality(UnknownToolErrors) = max_turns
                  /\ Len(log_history) = base + 2 * max_turns + 2
           /\ max_turns = 0 => (llm_calls = 0 /\ Len(log_history) = base + 2)
    /\ pc = "raised" => i < max_turns

C5_Witness ==
    /\ pc = "returned"
    /\ max_turns = 3
    /\ NoAnswerInCall
    /\ Cardinality(UnknownToolErrors) = 3
    /\ result = FallbackAnswer

\* ---------------------------------------------------------------- C6
\* C6: a TOOL: name QUERY: q output whose name is not registered calls no tool
\* and does not raise: the Turn after its thought is one error Turn naming the
\* tool, and the loop goes on with one more turn of the budget used.
C6_UnknownToolRecovered ==
    \A k \in 1..Len(log_history) :
        (IsThought(k) /\ IsUnknownToolOutput(log_history[k].body)) =>
            IF k = Len(log_history)
            THEN pc = "parse" /\ iter_tools = <<>> /\ ra_pc = "idle"
            ELSE /\ log_history[k + 1] = UnknownToolTurn(NamedTool(log_history[k].body))
                 /\ k + 1 < Len(log_history) =>
                        log_history[k + 2].kind \in {"Thought", "Final Answer", ""}
                 /\ k + 1 = Len(log_history) =>
                        /\ pc \in {"loop", "raised"}
                        /\ iter_tools = <<>>
                        /\ ra_pc = "idle"
                        /\ i = Cardinality(Thoughts)
                        /\ pc = "loop" => llm_calls = i

C6_Witness ==
    /\ pc = "loop"
    /\ i = 2
    /\ max_turns = 3
    /\ LastTurn = UnknownToolTurn(<<"ticket_tool">>)

\* ---------------------------------------------------------------- C7
\* C7: a model output with neither ANSWER: nor a TOOL: name QUERY: text match
\* calls no tool: the Turn after its thought is one error Turn that tells the
\* parse failure, and the loop goes on with one more turn of the budget used.
C7_ParseFailureRecovered ==
    \A k \in 1..Len(log_history) :
        (IsThought(k) /\ IsUnparsedOutput(log_history[k].body)) =>
            IF k = Len(log_history)
            THEN pc = "parse" /\ iter_tools = <<>> /\ ra_pc = "idle"
            ELSE /\ log_history[k + 1] = ExecErrorTurn(ParseErrorText)
                 /\ k + 1 < Len(log_history) =>
                        log_history[k + 2].kind \in {"Thought", "Final Answer", ""}
                 /\ k + 1 = Len(log_history) =>
                        /\ pc \in {"loop", "raised"}
                        /\ iter_tools = <<>>
                        /\ ra_pc = "idle"
                        /\ i = Cardinality(Thoughts)
                        /\ pc = "loop" => llm_calls = i

C7_Witness ==
    /\ pc = "loop"
    /\ i = 2
    /\ LastTurn = ExecErrorTurn(ParseErrorText)
    /\ log_history[Len(log_history) - 1].body # <<"hello">>

\* ---------------------------------------------------------------- C8
\* the last iteration of the current call dispatched to the retrieval agent
RetrievalIterationDone ==
    /\ pc = "loop"
    /\ i > 0
    /\ IsThought(Len(log_history) - 1)
    /\ IsKnownToolOutput(log_history[Len(log_history) - 1].body)
    /\ NamedTool(log_history[Len(log_history) - 1].body) = <<"retrieval_agent">>

\* C8: when process_request of a registered tool raises, the caller of
\* handle_user_query does not see it: the Turn after the thought is one error
\* Turn that carries the cause, there is no tool-result Turn for the iteration,
\* and the loop goes on with the next iteration.
C8_ToolFailureRecovered ==
    /\ (pc = "in_tool" /\ ra_pc = "done" /\ ra_out.kind = "raise") =>
           /\ LastTurn.kind = "Thought"
           /\ ra_out.value \in ToolFailures
    /\ (RetrievalIterationDone /\ ra_out.kind = "raise") =>
           /\ LastTurn = ExecErrorTurn(ra_out.value)
           /\ i = Cardinality(Thoughts)
    /\ pc = "raised" => (ra_pc = "idle" /\ (log_history # <<>> => LastTurn.kind # "Thought"))

C8_Witness ==
    /\ RetrievalIterationDone
    /\ ra_out = Raised(<<"llm failed">>)
    /\ LastTurn = ExecErrorTurn(<<"llm failed">>)

\* ---------------------------------------------------------------- C9
\* C9: in every call of handle_user_query, also a later one on the same agent,
\* the first Turn of the history is the user Turn of the query of that call,
\* and that query is the initial query given to the session sink.
C9_FirstTurnIsCallQuery ==
    pc = "returned" =>
        /\ log_history[1] = UserTurn(query)
        /\ saved[Len(saved)].initial_user_query = query

\* ---------------------------------------------------------------- C10
\* C10: when no domain retriever gave a passage (each returned none or failed),
\* process_request returns the no-candidates message, which begins with
\* NO_INFO_FOUND, and has called neither the re-ranker nor the language model.
C10_NoCandidatesShortCircuit ==
    /\ (ra_pc = "done" /\ (\A j \in 1..Len(ra_log) : ra_log[j] # "retrieved_docs")) =>
           /\ ra_out.kind = "return"
           /\ ra_out.value.type = "AIMessage"
           /\ ra_out.value.content =
                  <<"NO_INFO_FOUND", ": No documents were found in the initial fetch.">>
           /\ ra_calls.reranker = 0
           /\ ra_calls.llm = 0
           /\ \A d \in Domains : ra_calls.retriever[d] = 1
    /\ ra_pc \in {"rerank", "selected"} =>
           \E j \in 1..Len(ra_log) : ra_log[j] = "retrieved_docs"

C10_Witness ==
    /\ ra_pc = "done"
    /\ ra_log = <<"ca_message", "ra_thought", "error">>
    /\ ra_out = Returned(AIMessage(NoCandidatesText))

\* ---------------------------------------------------------------- C11
TextsOf(docs) == {docs[k].page_content : k \in 1..Len(docs)}
FirstAt(docs, t) ==
    CHOOSE k \in 1..Len(docs) :
        docs[k].page_content = t /\ \A j \in 1..(k - 1) : docs[j].page_content # t

\* C11: the passages the dedup hands to the rerank stage and to the degraded
\* fallback have pairwise distinct texts, their texts are the texts fetched,
\* and they stand in the order of the first occurrence of their texts.
C11_DedupFirstOccurrences ==
    ra_pc = "rerank" =>
        /\ \A a, b \in 1..Len(unique_docs) :
               a # b => unique_docs[a].page_content # unique_docs[b].page_content
        /\ TextsOf(unique_docs) = TextsOf(all_docs)
        /\ \A a, b \in 1..Len(unique_docs) :
               a < b => FirstAt(all_docs, unique_docs[a].page_content)
                            < FirstAt(all_docs, unique_docs[b].page_content)

C11_Witness ==
    /\ ra_pc = "rerank"
    /\ PageContents(all_docs) = <<"A", "B", "A">>
    /\ PageContents(unique_docs) = <<"A", "B">>

\* ---------------------------------------------------------------- C12
\* the passages the passes of the fetch loop returned, in the order of the passes
RECURSIVE Passages(_)
Passages(f) ==
    IF f = <<>> THEN <<>>
    ELSE LET r == Head(f).value
         IN  [k \in 1..Len(r.texts) |-> [domain |-> r.domain, page_content |-> r.texts[k]]]
                 \o Passages(Tail(f))
Failures(f) == {k \in 1..Len(f) : f[k].kind = "raise"}
ErrorsLogged == {k \in 1..Len(ra_log) : ra_log[k] = "error"}

\* C12: a retriever that fails in the fetch loop is logged and skipped: every
\* configured domain is queried once, in order, whatever the earlier passes
\* did, the passages of the passes that returned are all in all_docs when the
\* loop is over, and process_request goes on to the test of all_docs.
C12_FetchFailureIsolated ==
    /\ ra_pc = "fetch" =>
           /\ Len(fetched) = ra_next - 1
           /\ \A k \in 1..Len(fetched) :
                  /\ fetched[k].value.domain = retrievers[k]
                  /\ ra_calls.retriever[retrievers[k]] = 1
           /\ \A k \in ra_next..Len(retrievers) : ra_calls.retriever[retrievers[k]] = 0
           /\ all_docs = Passages(fetched)
           /\ Cardinality(ErrorsLogged) = Cardinality(Failures(fetched))
           /\ ra_out = NoOutcome
    /\ ra_pc \in {"rerank", "selected", "done"} =>
           \A d \in Domains : ra_calls.retriever[d] = 1

C12_Witness ==
    /\ ra_pc = "fetch"
    /\ ra_next > Len(retrievers)
    /\ fetched = <<Raised([domain |-> "hr", texts |-> <<>>]),
                   Returned([domain |-> "it", texts |-> <<"B", "A">>])>>
    /\ PageContents(all_docs) = <<"B", "A">>

\* ---------------------------------------------------------------- C13
\* the texts of docs without repetition, in the order of their first occurrence
DistinctTexts(docs) ==
    LET first == {FirstAt(docs, t) : t \in TextsOf(docs)}
        Nth(n) == CHOOSE k \in first : Cardinality({j \in first : j < k}) = n - 1
    IN  [n \in 1..Cardinality(first) |-> docs[Nth(n)].page_content]

\* the passages of a prompt context
SplitContext(c) == SelectSeq(c, LAMBDA t : t # Separator)
IsPrefix(p, s) == Len(p) <= Len(s) /\ p = SubSeq(s, 1, Len(p))
MinOf(a, b) == IF a < b THEN a ELSE b

\* C13: with no re-ranker (self.reranker is None) the rerank stage calls no
\* re-ranker and selects the first top_k_rerank distinct texts fetched, in the
\* order fetched, all of them when there are fewer; the selection is a
\* function of the fetched passages, and it is what the synthesis prompt holds.
C13_DegradedFirstM ==
    [][reranker = "None" =>
          /\ (ra_pc = "rerank" /\ ra_pc' # "rerank") =>
                 /\ ra_pc' = "selected"
                 /\ ra_calls' = ra_calls
                 /\ IsPrefix(top_docs_content', DistinctTexts(all_docs))
                 /\ Len(top_docs_content') =
                        MinOf(top_k_rerank, Len(DistinctTexts(all_docs)))
          /\ (ra_pc = "selected" /\ ra_calls'.llm # ra_calls.llm) =>
                 SplitContext(context') = top_docs_content]_vars

C13_Witness ==
    /\ ra_pc = "done"
    /\ reranker = "None"
    /\ top_k_rerank = 1
    /\ ra_log = <<"ca_message", "ra_thought", "retrieved_docs", "retrieved_docs",
                  "initial_unique_docs_count", "warning", "ra_summary">>
    /\ context = <<"B">>

\* ---------------------------------------------------------------- C14
Logged(role) == \E k \in 1..Len(ra_log) : ra_log[k] = role

\* the re-ranker was called and its call did not return
RerankCallFailed ==
    /\ ra_calls.reranker = 1
    /\ ~Logged("reranked_top_docs_content")

\* C14: when the rerank call of an initialized re-ranker raises,
\* process_request does not raise: it goes on to the synthesis with the
\* degraded selection and ends by returning.
C14_RerankFailureDegrades ==
    (ra_pc = "done" /\ RerankCallFailed) =>
        /\ ra_out.kind = "return"
        /\ ra_calls.llm = 1

\* ---------------------------------------------------------------- C16
\* C16: when the language-model call of the synthesis stage raises,
\* process_request does not raise: it ends by returning one of the negative
\* outcomes.
C16_SynthesisFailureReturned ==
    (ra_pc = "done" /\ summary_response.kind = "raise") =>
        /\ ra_out.kind = "return"
        /\ ra_out.value.content \in
               {NoCandidatesText, RerankEmptyText, SynthesisNegativeText}

\* ---------------------------------------------------------------- C15
\* the sentinel in the letter cases the model writes it in
SentinelForms == {"NO_INFO_FOUND", "No_Info_Found", "no_info_found"}
HoldsSentinel(text) == \E k \in 1..Len(text) : text[k] \in SentinelForms

\* C15: when the synthesis response holds the sentinel NO_INFO_FOUND, in any
\* letter case and anywhere in the text, process_request returns the
\* synthesis-negative message and not the response; otherwise it returns the
\* trimmed response as the answer.
C15_SentinelDecidesOutcome ==
    (ra_pc = "done" /\ summary_response.kind = "return") =>
        LET response == summary_response.value.content
        IN  IF HoldsSentinel(response)
            THEN /\ ra_out = Returned(AIMessage(<<"NO_INFO_FOUND">>))
                 /\ ~Logged("ra_summary")
            ELSE /\ ra_out.kind = "return"
                 /\ ra_out.value.type = "AIMessage"
                 /\ IsStripOf(ra_out.value.content, response)
                 /\ Logged("ra_summary")

C15_Witness ==
    /\ ra_pc = "done"
    /\ summary_response = Returned(AIMessage(<<"I don't know.", " ", "NO_INFO_FOUND">>))
    /\ ra_out = Returned(AIMessage(SynthesisNegativeText))

\* ---------------------------------------------------------------- C17
\* handle_user_query returns (final_answer, self.log_history): the history the
\* caller holds is the list of the agent itself.
\* C17: a call that returns gives the history to _save_log_to_file once, with
\* the final answer as its last Turn, and no call that does not return gives
\* it; after the return the history handed over and returned does not change.
C17_SavedOnceThenFrozen ==
    [][/\ (pc # "returned" /\ pc' = "returned") =>
              /\ Len(saved') = Len(saved) + 1
              /\ saved'[Len(saved')].log = log_history'
              /\ log_history'[Len(log_history')] = FinalTurn(result')
       /\ ~(pc # "returned" /\ pc' = "returned") => saved' = saved
       /\ pc = "returned" => log_history' = log_history]_vars

\* ---------------------------------------------------------------- C18
\* the place of Turn k in the current call: 1 is the user Turn
Offset(k) == k - base
IsEven(n) == n % 2 = 0

\* C18: in a call, the user Turn is followed by pairs of a thought Turn and one
\* Turn that is not a thought, one pair per completed model invocation, and
\* the fallback Turn of an exhausted call follows the last pair; so a call on
\* an empty history that ends by ANSWER on iteration n returns 2n + 1 Turns
\* and an exhausted one 2 * max_turns + 2.
C18_TurnStructure ==
    /\ pc # "idle" =>
           /\ log_history[base + 1].role = "user"
           /\ \A k \in CallTurns :
                  /\ (Offset(k) > 1 /\ IsEven(Offset(k))) =>
                         \/ IsThought(k)
                         \/ /\ log_history[k] = FinalTurn(FallbackAnswer)
                            /\ k = Len(log_history)
                            /\ pc = "returned"
                            /\ Offset(k) = 2 * max_turns + 2
                  /\ (Offset(k) > 1 /\ ~IsEven(Offset(k))) =>
                         /\ log_history[k].kind \in
                                {"Final Answer", "Tool Result", "Error: unknown tool",
                                 "Error: could not parse or execute"}
                         /\ IsThought(k - 1)
           /\ Cardinality(Thoughts) = llm_calls - (IF pc = "raised" THEN 1 ELSE 0)
           /\ (pc = "loop" \/ pc = "raised") => ~IsEven(Len(log_history) - base)
    /\ (pc = "returned" /\ base = 0) =>
           IF IsThought(Len(log_history) - 1)
           THEN Len(log_history) = 2 * llm_calls + 1
           ELSE Len(log_history) = 2 * max_turns + 2

C18_Witness ==
    /\ pc = "returned"
    /\ base = 0
    /\ llm_calls = 2
    /\ Len(log_history) = 5
    /\ IsThought(4)
    /\ log_history[3].kind = "Tool Result"

\* ---------------------------------------------------------------- C19
\* C19: every step leaves the Turns the history holds as they are and where
\* they are, and at most appends Turns after them: each state of the history
\* is a prefix of every later one.
C19_AppendOnly ==
    [][IsPrefix(log_history, log_history')]_vars

C19_Witness ==
    /\ calls = 2
    /\ pc = "returned"
    /\ Len(saved) = 2
    /\ Len(saved[1].log) < Len(log_history)
    /\ IsPrefix(saved[1].log, log_history)

\* ---------------------------------------------------------------- C20
\* C20: the prompt of the synthesis call holds at least one and at most
\* top_k_rerank passages, each the text of one of the unique passages of this
\* request; with an empty selection process_request returns the rerank-empty
\* message and makes no call.
C20_PromptFromSelection ==
    [][/\ ra_calls'.llm > ra_calls.llm =>
              LET passages == SplitContext(context')
              IN  /\ ra_pc = "selected"
                  /\ Len(passages) >= 1
                  /\ Len(passages) <= top_k_rerank
                  /\ \A k \in 1..Len(passages) : passages[k] \in TextsOf(unique_docs)
       /\ (ra_pc = "selected" /\ top_docs_content = <<>> /\ ra_pc' # "selected") =>
              /\ ra_out' = Returned(AIMessage(RerankEmptyText))
              /\ ra_calls' = ra_calls]_vars

C20_Witness ==
    /\ ra_pc = "done"
    /\ reranker = "ranker"
    /\ top_k_rerank = 2
    /\ ra_calls.llm = 1
    /\ context = <<"A", Separator, "B">>

\* ---------------------------------------------------------------- C22
\* C22: nothing is tried again: in one process_request call every domain
\* retriever is invoked once, also the ones that fail, the re-ranker at most
\* once and the language model at most once; in one iteration of
\* handle_user_query the model and the tool are invoked at most once each.
C22_NoRetries ==
    /\ \A d \in Domains : ra_calls.retriever[d] <= 1
    /\ \A k \in 1..Len(fetched) : ra_calls.retriever[fetched[k].value.domain] = 1
    /\ ra_pc \in {"rerank", "selected", "done"} =>
           /\ \A d \in Domains : ra_calls.retriever[d] = 1
           /\ Cardinality(ErrorsLogged) <= Cardinality(Domains)
    /\ ra_calls.reranker <= 1
    /\ ra_calls.llm <= 1
    /\ (ra_pc = "done" /\ summary_response.kind # "none") => ra_calls.llm = 1
    /\ Len(iter_tools) <= 1
    /\ llm_calls - i \in {0, 1}
    /\ pc = "in_tool" => (Len(iter_tools) = 1 /\ llm_calls = i + 1)

C22_Witness ==
    /\ pc = "in_tool"
    /\ ra_pc = "done"
    /\ Cardinality(ErrorsLogged) = 1
    /\ ra_calls = [retriever |-> [d \in Domains |-> 1], reranker |-> 1, llm |-> 1]
    /\ summary_response = Raised(<<"llm failed">>)

\* ---------------------------------------------------------------- C23
\* C23: the shared handles are read-only after construction: no step of
\* handle_user_query or process_request changes the tool registry, the
\* re-ranker handle or the state of a domain retriever.
C23_HandlesReadOnly ==
    [][/\ tools' = tools
       /\ reranker' = reranker
       /\ search_kwargs' = search_kwargs]_vars

\* ---------------------------------------------------------------- C25
FinalAnswers == {k \in CallTurns : log_history[k].kind = "Final Answer"}

\* C25: when handle_user_query returns (answer, history), the last Turn of
\* the history is an assistant final-answer Turn that carries the returned
\* answer, and the call appended exactly one final-answer Turn; a call that
\* has not returned has appended none.
C25_ReturnedAnswerIsLastTurn ==
    /\ pc = "returned" =>
           /\ Len(log_history) > base + 1
           /\ LastTurn.role = "assistant"
           /\ LastTurn.kind = "Final Answer"
           /\ LastTurn.body = result
           /\ FinalAnswers = {Len(log_history)}
    /\ pc \in {"loop", "parse", "in_tool", "raised"} => FinalAnswers = {}

C25_Witness ==
    /\ pc = "returned"
    /\ base > 0
    /\ log_history[base].kind = "Final Answer"
    /\ log_history[base].body # result
    /\ result # FallbackAnswer
    /\ Cardinality(FinalAnswers) = 1

\* ---------------------------------------------------------------- C24
\* the text json.dumps gives for the ticket tool's not-found record
NotFoundJson(q) == <<"{", "error", "Ticket ID '">> \o q \o <<"' not found.", "}">>
NegativeOutcome == ra_out.kind = "return" /\ HoldsSentinel(ra_out.value.content)

\* C24: the step of handle_user_query that takes a tool's result logs it in
\* text form as a tool-result Turn and goes on with the loop: a message is
\* logged as its text, so a negative outcome of the pipeline keeps its
\* NO_INFO_FOUND text; the ticket tool's not-found record for an ID outside
\* the table is logged serialized, not as an error Turn.
C24_ResultLoggedAsText ==
    [][/\ (pc = "in_tool" /\ pc' # "in_tool" /\ ra_out.kind = "return") =>
              /\ log_history' = Append(log_history,
                     ToolResultTurn(<<"retrieval_agent">>, ra_out.value.content))
              /\ NegativeOutcome => HoldsSentinel(log_history'[Len(log_history')].body)
              /\ pc' = "loop"
              /\ i' = i + 1
       /\ (/\ pc = "parse"
           /\ pc' # "parse"
           /\ IsKnownToolOutput(model_output)
           /\ NamedTool(model_output) = <<"ticket_tool">>) =>
              \E q \in Pieces :
                  /\ IsQueryOf(q, model_output)
                  /\ Len(log_history') = Len(log_history) + 1
                  /\ LET turn == log_history'[Len(log_history')]
                     IN  /\ turn.kind = "Tool Result"
                         /\ turn.name = <<"ticket_tool">>
                         /\ turn.body[1] = "{" /\ turn.body[Len(turn.body)] = "}"
                         /\ q \notin TicketIds => turn.body = NotFoundJson(q)
                  /\ IsPrefix(log_history, log_history')
                  /\ pc' = "loop"
                  /\ i' = i + 1]_vars

C24_Witness ==
    /\ pc = "loop"
    /\ Len(log_history) > base + 3
    /\ \E k \in CallTurns :
           /\ log_history[k] = ToolResultTurn(<<"ticket_tool">>, NotFoundJson(<<"NCX-9">>))
    /\ \E k \in CallTurns :
           /\ log_history[k].kind = "Tool Result"
           /\ log_history[k].name = <<"retrieval_agent">>
           /\ HoldsSentinel(log_history[k].body)

\* ---------------------------------------------------------------- C21
\* what the retriever of domain d gave in the fetch loop that just ended
ResultOf(d) ==
    LET k == CHOOSE k \in 1..Len(fetched) : fetched[k].value.domain = d
    IN  fetched[k].value.texts
FetchResults == [d \in Domains |-> ResultOf(d)]

\* C21: the fetch does not depend on the order of the domains: with the
\* results the retrievers gave in this call, querying them in any other
\* order hands the same set of unique passage texts to the rerank stage,
\* namely the texts any of the domains returned.
C21_FetchOrderInsensitive ==
    [][(ra_pc = "fetch" /\ ra_pc' = "rerank") =>
          /\ {fetched[k].value.domain : k \in 1..Len(fetched)} = Domains
          /\ all_docs = FetchLoop(retrievers, FetchResults)
          /\ TextsOf(unique_docs') = UNION {Range(ResultOf(d)) : d \in Domains}
          /\ Len(unique_docs') = Cardinality(TextsOf(unique_docs'))
          /\ \A o \in RetrieverOrders :
                 TextsOf(Dedup(FetchLoop(o, FetchResults))) = TextsOf(unique_docs')]_vars

C21_Witness ==
    /\ retrievers = <<"it", "hr">>
    /\ ra_pc = "rerank"
    /\ TextsOf(unique_docs) = {"A", "B"}
    /\ unique_docs[1].domain = "it"
    /\ \E k \in 1..Len(all_docs) : all_docs[k].domain = "hr"

\* ---------------------------------------------------------------- C26
\* C26: run_multi_agent_conversation calls handle_user_query once for the
\* user query and makes at most max_turns passes of its loop, the model
\* invocations of the agent stay within the agent's own budget, and a run
\* whose calls of the agents all return reaches save_interaction with the
\* final answer.
C26_OuterDriver ==
    /\ calls <= 1
    /\ rounds <= outer_max_turns
    /\ llm_calls <= max_turns
    /\ run_pc \in {"save_interaction", "saved", "save_raised"} =>
           (pc = "returned" /\ answer = result)
    /\ run_pc = "raised" => (pc = "raised" \/ ra_out.kind = "raise")

====
